---- MODULE Spec2Model ----
(***************************************************************************)
(* The task/log state machine of src/src/App.tsx: the useTaskManager hook  *)
(* (tasks, nextId, logs; logOutput, addTask, completeTask, resetSystem)     *)
(* and the callbacks of App that drive it (the delayed startup sequence,   *)
(* the add form, the complete button, File > Exit).                        *)
(*                                                                         *)
(* React semantics the model rests on:                                     *)
(*  - a callback runs against the render that created it: it reads the     *)
(*    state values captured by that render (here only nextId is read);     *)
(*  - setX(updater) queues the updater; the queued updaters of one         *)
(*    callback run in call order, each on the result of the previous one,  *)
(*    and the component re-renders once after the callback;                *)
(*  - the first updater queued on a component with no pending work may be  *)
(*    run at once by setX (eager state); otherwise it runs at the render.  *)
(*    Which of the two happens is an internal of React: both are modelled. *)
(***************************************************************************)
EXTENDS Integers, Sequences, FiniteSets, TLC

VARIABLES tasks, nextId, logs, newTaskInput, timer, now

vars == <<tasks, nextId, logs, newTaskInput, timer, now>>

(* ------------------------------ bounds -------------------------------- *)
MaxTasks == 3
MaxLogs == 4

(* --------------------------- program constants ------------------------ *)
InitialNextId == 1
MsPerSecond == 1000

(* ----------------------------- input domains -------------------------- *)
(* Texts are sequences of characters; " " is whitespace.                   *)
Inputs == {<<>>, <<" ">>, <<" ", "a">>}

(* Ids a caller may pass to completeTask: zero, a negative, the ids in     *)
(* use and one beyond.                                                     *)
Ids == (0 - 1) .. (MaxTasks + 1)

(* Values of Date.now(), in milliseconds. *)
Clock == {0, 1}

(* Values of Math.random(), as multiples of the float resolution. *)
Fracs == {0, 1}

(* String.prototype.trim: drops leading and trailing whitespace. *)
RECURSIVE TrimStart(_)
TrimStart(s) ==
    IF s = <<>> THEN s
    ELSE IF Head(s) = " " THEN TrimStart(Tail(s)) ELSE s

RECURSIVE TrimEnd(_)
TrimEnd(s) ==
    IF s = <<>> THEN s
    ELSE IF s[Len(s)] = " " THEN TrimEnd(SubSeq(s, 1, Len(s) - 1)) ELSE s

(* The guard written without .trim(): if (!newTaskInput) return. *)
Trim_Missing(s) == s

Trim(s) == TrimEnd(TrimStart(s))

(* new Date().toLocaleTimeString(): the wall clock at second resolution. *)
LocaleTimeString(t) == t \div MsPerSecond

(* Date.now() + Math.random(): t milliseconds plus the fraction r out of   *)
(* Cardinality(Fracs), kept as the integer t * Cardinality(Fracs) + r.     *)
EntryId(t, r) == t * Cardinality(Fracs) + r

(* The state object a callback works on: the values the queued updaters    *)
(* will see.                                                               *)
State == [tasks |-> tasks, nextId |-> nextId, logs |-> logs]

(* logOutput putting the entry first: setLogs(prev => [entry, ...prev]). *)
logOutput_Prepend(s, msg, t, r) ==
    LET entry == [id |-> EntryId(t, r),
                  timestamp |-> LocaleTimeString(t),
                  message |-> msg]
    IN [s EXCEPT !.logs = <<entry>> \o @]

(* logOutput(msg): setLogs(prev => [...prev, entry]). *)
logOutput(s, msg, t, r) ==
    LET entry == [id |-> EntryId(t, r),
                  timestamp |-> LocaleTimeString(t),
                  message |-> msg]
    IN [s EXCEPT !.logs = Append(@, entry)]

(* addTask without its logOutput call. *)
addTask_NoLog(s, cid, description, t, r) ==
    LET newTask == [id |-> cid, description |-> description, completed |-> FALSE]
        s1 == [s EXCEPT !.tasks = Append(@, newTask)]
    IN [s1 EXCEPT !.nextId = @ + 1]

(* addTask with setNextId(nextId + 1): the increment of the captured value. *)
addTask_StaleIncrement(s, cid, description, t, r) ==
    LET newTask == [id |-> cid, description |-> description, completed |-> FALSE]
        s1 == [s EXCEPT !.tasks = Append(@, newTask)]
        s2 == [s1 EXCEPT !.nextId = cid + 1]
    IN logOutput(s2, <<"Task added: ">> \o description, t, r)

(* addTask(description), called from a render that captured nextId = cid. *)
addTask(s, cid, description, t, r) ==
    LET newTask == [id |-> cid, description |-> description, completed |-> FALSE]
        s1 == [s EXCEPT !.tasks = Append(@, newTask)]
        s2 == [s1 EXCEPT !.nextId = @ + 1]
    IN logOutput(s2, <<"Task added: ">> \o description, t, r)

(* The updater written with filter in place of map: the matched task is   *)
(* dropped.                                                                *)
CompleteMap_Filter(prev, id) ==
    SelectSeq(prev, LAMBDA x : x.id # id)

(* The updater of completeTask: prev.map(t => t.id === id ? {...t, completed: true} : t) *)
CompleteMap(prev, id) ==
    [i \in 1 .. Len(prev) |->
        IF prev[i].id = id THEN [prev[i] EXCEPT !.completed = TRUE] ELSE prev[i]]

HasId(ts, id) == \E i \in 1 .. Len(ts) : ts[i].id = id

(* completeTask with `found` set by the updater whether or not the id      *)
(* matched.                                                                *)
completeTask_FoundUnchecked(s, id, eager, t, r) ==
    LET found == eager
        s1 == [s EXCEPT !.tasks = CompleteMap(@, id)]
    IN IF found
       THEN logOutput(s1, <<"Task ", ToString(id), " done.">>, t, r)
       ELSE logOutput(s1, <<"ID not found.">>, t, r)

(* completeTask(id). `found` is set inside the updater, and read right     *)
(* after setTasks returns: it is true only if the updater has already run  *)
(* (eager) and met a task with that id.                                    *)
completeTask(s, id, eager, t, r) ==
    LET found == eager /\ HasId(s.tasks, id)
        s1 == [s EXCEPT !.tasks = CompleteMap(@, id)]
    IN IF found
       THEN logOutput(s1, <<"Task ", ToString(id), " done.">>, t, r)
       ELSE logOutput(s1, <<"ID not found.">>, t, r)

(* resetSystem with logOutput called before setLogs([]). *)
resetSystem_LogBeforeClear(s, t, r) ==
    LET s1 == [s EXCEPT !.tasks = <<>>]
        s2 == [s1 EXCEPT !.nextId = 1]
        s3 == logOutput(s2, <<"System reset.">>, t, r)
    IN [s3 EXCEPT !.logs = <<>>]

(* resetSystem without setTasks([]). *)
resetSystem_KeepsTasks(s, t, r) ==
    LET s2 == [s EXCEPT !.nextId = 1]
        s3 == [s2 EXCEPT !.logs = <<>>]
    IN logOutput(s3, <<"System reset.">>, t, r)

(* resetSystem(): setTasks([]); setNextId(1); setLogs([]); logOutput(...). *)
resetSystem(s, t, r) ==
    LET s1 == [s EXCEPT !.tasks = <<>>]
        s2 == [s1 EXCEPT !.nextId = 1]
        s3 == [s2 EXCEPT !.logs = <<>>]
    IN logOutput(s3, <<"System reset.">>, t, r)

(* The re-render after a callback: the component's state becomes s. *)
Commit(s) ==
    /\ nextId' = s.nextId
    /\ tasks' = s.tasks
    /\ logs' = s.logs

Init ==
    /\ tasks = <<>>
    /\ nextId = InitialNextId
    /\ logs = <<>>
    /\ newTaskInput = <<>>
    /\ timer = "armed"
    /\ now = 0

(* Date.now() never runs backwards: a callback reads a time t >= now. *)
Times == {t \in Clock : t >= now}

(* onChange of the input: setNewTaskInput(e.target.value). *)
SetInput(v) ==
    /\ v # newTaskInput
    /\ newTaskInput' = v
    /\ UNCHANGED <<tasks, nextId, logs, timer, now>>

(* handleAddTask: the form's onSubmit, bound by the latest render. *)
HandleAddTask ==
    IF Trim(newTaskInput) = <<>>
    THEN UNCHANGED vars
    ELSE /\ Len(tasks) < MaxTasks
         /\ Len(logs) < MaxLogs
         /\ \E t \in Times, r \in Fracs :
                /\ now' = t
                /\ newTaskInput' = <<>>
                /\ UNCHANGED timer
                /\ Commit(addTask(State, nextId, newTaskInput, t, r))

(* A callback of the latest render calling completeTask(id). *)
CompleteTask(id, eager, t, r) ==
    /\ Len(logs) < MaxLogs
    /\ now' = t
    /\ UNCHANGED <<newTaskInput, timer>>
    /\ Commit(completeTask(State, id, eager, t, r))

(* File > Exit: onExit = resetSystem. *)
ResetSystem(t, r) ==
    /\ now' = t
    /\ UNCHANGED <<newTaskInput, timer>>
    /\ Commit(resetSystem(State, t, r))

(* The startup timeout. Its callback was created by the mount render, so   *)
(* its addTask reads the nextId of that render, InitialNextId, in both     *)
(* calls.                                                                  *)
Startup(t, r1, r2, r3) ==
    /\ timer = "armed"
    /\ Len(tasks) + 2 <= MaxTasks
    /\ Len(logs) + 3 <= MaxLogs
    /\ timer' = "fired"
    /\ now' = t
    /\ UNCHANGED newTaskInput
    /\ LET s1 == logOutput(State, <<"Initializing TaskManager...">>, t, r1)
           s2 == addTask(s1, InitialNextId, <<"Refactor Legacy Code">>, t, r2)
           s3 == addTask(s2, InitialNextId, <<"Upload Multiple Files">>, t, r3)
       IN Commit(s3)

Next ==
    \/ \E v \in Inputs : SetInput(v)
    \/ HandleAddTask
    \/ \E id \in Ids, eager \in BOOLEAN, t \in Times, r \in Fracs : CompleteTask(id, eager, t, r)
    \/ \E t \in Times, r \in Fracs : ResetSystem(t, r)
    \/ \E t \in Times, r1 \in Fracs, r2 \in Fracs, r3 \in Fracs : Startup(t, r1, r2, r3)

Spec == Init /\ [][Next]_vars

(* ----------------------------- properties ------------------------------ *)

Messages(ls) == [i \in 1 .. Len(ls) |-> ls[i].message]

LastMessage(ls) == ls[Len(ls)].message

IsPrefix(a, b) == Len(a) <= Len(b) /\ SubSeq(b, 1, Len(a)) = a

Identity(ts) == [i \in 1 .. Len(ts) |-> <<ts[i].id, ts[i].description>>]

DoneMessage(id) == <<"Task ", ToString(id), " done.">>

NotFoundMessage == <<"ID not found.">>

ResetMessage == <<"System reset.">>

StartupMessages ==
    << <<"Initializing TaskManager...">>,
       <<"Task added: ", "Refactor Legacy Code">>,
       <<"Task added: ", "Upload Multiple Files">> >>

AddStep == Trim(newTaskInput) # <<>> /\ HandleAddTask

CompleteStep(id) == \E eager \in BOOLEAN, t \in Clock, r \in Fracs : CompleteTask(id, eager, t, r)

ResetStep == \E t \in Clock, r \in Fracs : ResetSystem(t, r)

StartupStep == \E t \in Clock, r1 \in Fracs, r2 \in Fracs, r3 \in Fracs : Startup(t, r1, r2, r3)

(* C1: since the last reset (or the start), the i-th addTask call created  *)
(* the task with id i, and nextId is one more than the number of calls.    *)
(* tasks holds exactly the tasks of those calls, in call order.            *)
C1_IthCallGetsIdI ==
    /\ \A i \in 1 .. Len(tasks) : tasks[i].id = i
    /\ nextId = Len(tasks) + 1

(* C2: no two entries of tasks have the same id. *)
C2_UniqueTaskIds ==
    \A i \in 1 .. Len(tasks), j \in 1 .. Len(tasks) : i # j => tasks[i].id # tasks[j].id

(* C3: the entry completeTask(id) appends says "Task {id} done." exactly   *)
(* when a task has that id at the call, "ID not found." exactly when none  *)
(* has.                                                                    *)
C3_LogTellsWhetherIdExists ==
    [][\A id \in Ids : CompleteStep(id) =>
          /\ (LastMessage(logs') = DoneMessage(id)) <=> HasId(tasks, id)
          /\ (LastMessage(logs') = NotFoundMessage) <=> ~HasId(tasks, id)]_vars

(* C4: completeTask(id) with a matching id sets the completed flag of that *)
(* one task and leaves every other task, the length and order of tasks,    *)
(* every id and description, and nextId unchanged.                         *)
C4_CompleteChangesOneTask ==
    [][\A id \in Ids : (CompleteStep(id) /\ HasId(tasks, id)) =>
          /\ nextId' = nextId
          /\ Len(tasks') = Len(tasks)
          /\ \E k \in 1 .. Len(tasks) :
                /\ tasks[k].id = id
                /\ tasks'[k] = [tasks[k] EXCEPT !.completed = TRUE]
                /\ \A j \in 1 .. Len(tasks) : j # k => tasks'[j] = tasks[j]]_vars

(* C5: completeTask(id) with an id no task has leaves tasks and nextId     *)
(* unchanged and appends exactly one entry, "ID not found."; on a fresh    *)
(* session completeTask(1) leaves logs = ["ID not found."].                *)
C5_UnknownIdOnlyLogs ==
    [][\A id \in Ids :
          \/ HasId(tasks, id)
          \/ /\ tasks' = tasks
             /\ nextId' = nextId
             /\ Len(logs') = Len(logs) + 1
             /\ IsPrefix(logs, logs')
             /\ LastMessage(logs') = NotFoundMessage
             /\ (logs = <<>> => Messages(logs') = <<NotFoundMessage>>)
          \/ ~CompleteStep(id)]_vars

(* completeTask ran on a session with no tasks and no log: the fresh       *)
(* session case of C5.                                                     *)
C5_Witness ==
    /\ tasks = <<>>
    /\ nextId = 1
    /\ Messages(logs) = <<NotFoundMessage>>

(* C6: resetSystem leaves tasks empty, nextId = 1 and logs with exactly    *)
(* one entry, "System reset.".                                             *)
C6_ResetResult ==
    [][\/ /\ tasks' = <<>>
          /\ nextId' = 1
          /\ Messages(logs') = <<ResetMessage>>
       \/ ~ResetStep]_vars

(* resetSystem ran after the startup sequence had filled tasks and logs. *)
C6_Witness ==
    /\ timer = "fired"
    /\ tasks = <<>>
    /\ nextId = 1
    /\ Messages(logs) = <<ResetMessage>>

(* C7: each addTask and each completeTask call lengthens logs by exactly   *)
(* one (the startup callback: one logOutput and two addTask calls, three), *)
(* and resetSystem leaves logs of length one.                              *)
C7_OneLogPerCall ==
    [][/\ Len(logs') = Len(logs) + 1 \/ ~AddStep
       /\ Len(logs') = Len(logs) + 1 \/ ~(\E id \in Ids : CompleteStep(id))
       /\ Len(logs') = Len(logs) + 3 \/ ~StartupStep
       /\ Len(logs') = 1 \/ ~ResetStep]_vars

(* An addTask and then a completeTask after a reset: three entries. *)
C7_Witness ==
    /\ Len(logs) = 3
    /\ logs[1].message = ResetMessage
    /\ Head(logs[2].message) = "Task added: "
    /\ logs[3].message \in {NotFoundMessage} \cup {DoneMessage(id) : id \in Ids}

(* C8: the startup sequence on an untouched session (its three entries are *)
(* the whole log) leaves tasks 1 and 2, not completed, and nextId = 3.     *)
C8_StartupSeedsTasks1And2 ==
    Messages(logs) = StartupMessages =>
        /\ tasks = << [id |-> 1, description |-> <<"Refactor Legacy Code">>, completed |-> FALSE],
                      [id |-> 2, description |-> <<"Upload Multiple Files">>, completed |-> FALSE] >>
        /\ nextId = 3

(* C9: nextId is strictly greater than the id of every task in tasks. *)
C9_NextIdAboveEveryId ==
    \A i \in 1 .. Len(tasks) : tasks[i].id < nextId

(* A user add, then the startup callback with its stale nextId. *)
C9_Witness ==
    /\ Len(tasks) = 3
    /\ timer = "fired"
    /\ tasks[3].description = <<"Upload Multiple Files">>
    /\ nextId = 4

(* C10: across a step that is not resetSystem, the old tasks (by id and    *)
(* description) are a prefix of the new tasks and the old logs a prefix of *)
(* the new logs.                                                           *)
C10_OnlyResetShrinks ==
    [][\/ /\ IsPrefix(Identity(tasks), Identity(tasks'))
          /\ IsPrefix(logs, logs')
       \/ ResetStep]_vars

(* Tasks were added and one was completed, with no reset in between. *)
C10_Witness ==
    /\ Len(tasks) >= 2
    /\ \E i \in 1 .. Len(tasks) : tasks[i].completed
    /\ \A i \in 1 .. Len(logs) : logs[i].message # ResetMessage

AllCompleted(ts, id) == \A i \in 1 .. Len(ts) : ts[i].id = id => ts[i].completed

(* C11: a completed flag that is true stays true across every step but     *)
(* resetSystem, and completeTask(id) on an id whose task is already        *)
(* completed leaves tasks as they are and appends "Task {id} done." again. *)
C11_CompletedOneWayAndLoggedAgain ==
    [][/\ \/ \A i \in 1 .. Len(tasks) :
                tasks[i].completed => (i <= Len(tasks') /\ tasks'[i].completed)
          \/ ResetStep
       /\ \A id \in Ids :
             (CompleteStep(id) /\ HasId(tasks, id) /\ AllCompleted(tasks, id)) =>
                 /\ tasks' = tasks
                 /\ LastMessage(logs') = DoneMessage(id)]_vars

(* new is old followed by entries with the messages msgs, in that order. *)
Appended(old, new, msgs) ==
    /\ Len(new) = Len(old) + Len(msgs)
    /\ IsPrefix(old, new)
    /\ \A k \in 1 .. Len(msgs) : new[Len(old) + k].message = msgs[k]

(* C12: the log keeps the order of the calls: each callback appends the    *)
(* messages of its logOutput/addTask/completeTask calls, in call order,    *)
(* after the entries already there (after a reset: after none).            *)
C12_LogInCallOrder ==
    [][/\ \/ Appended(logs, logs', << <<"Task added: ">> \o newTaskInput >>)
          \/ ~AddStep
       /\ \/ Appended(logs, logs', <<NotFoundMessage>>)
          \/ \A id \in Ids :
                \/ Appended(logs, logs', <<DoneMessage(id)>>)
                \/ ~CompleteStep(id)
       /\ \/ Appended(logs, logs', StartupMessages)
          \/ ~StartupStep
       /\ \/ Messages(logs') = <<ResetMessage>>
          \/ ~ResetStep]_vars

(* A reset, then the startup callback: four entries in call order. *)
C12_Witness ==
    Messages(logs) = <<ResetMessage>> \o StartupMessages

(* C13: of several tasks with the id passed to completeTask, the first is  *)
(* set completed and the later ones are left unchanged.                    *)
C13_OnlyFirstMatchCompleted ==
    [][\A id \in Ids : CompleteStep(id) =>
          \A j \in 1 .. Len(tasks) :
              tasks[j].id = id =>
                  IF \E k \in 1 .. (j - 1) : tasks[k].id = id
                  THEN tasks'[j] = tasks[j]
                  ELSE tasks'[j] = [tasks[j] EXCEPT !.completed = TRUE]]_vars

(* C14: every addTask call gives its task the nextId current at the call   *)
(* (for the second call of the startup callback: one more than for the     *)
(* first), which no task already in tasks holds.                           *)
C14_AddUsesCurrentNextId ==
    [][/\ AddStep =>
             /\ tasks'[Len(tasks) + 1].id = nextId
             /\ ~HasId(tasks, tasks'[Len(tasks) + 1].id)
       /\ StartupStep =>
             /\ tasks'[Len(tasks) + 1].id = nextId
             /\ tasks'[Len(tasks) + 2].id = nextId + 1
             /\ ~HasId(tasks, tasks'[Len(tasks) + 1].id)
             /\ ~HasId(tasks, tasks'[Len(tasks) + 2].id)]_vars

Room == Len(tasks) < MaxTasks /\ Len(logs) < MaxLogs

(* C15 as stated: whatever the text of the add request, empty and          *)
(* whitespace-only included, submitting it creates a task, increments      *)
(* nextId and appends "Task added: {description}".                         *)
C15_EveryAddRequestCreatesTask ==
    Room => ENABLED (/\ HandleAddTask
                     /\ Len(tasks') = Len(tasks) + 1
                     /\ nextId' = nextId + 1
                     /\ LastMessage(logs') = <<"Task added: ">> \o newTaskInput)

(* C15 amended: addTask itself validates nothing: for any description,     *)
(* empty and whitespace-only included, it appends a task with that         *)
(* description, not completed, increments nextId and appends "Task added:  *)
(* {description}". The add form ignores a submit whose text is empty or    *)
(* whitespace-only, and passes any other text to addTask untrimmed.        *)
C15_AddTaskUnvalidatedFormRejectsBlank ==
    /\ \A d \in Inputs, t \in Clock, r \in Fracs :
          LET s == addTask(State, nextId, d, t, r)
          IN /\ Len(s.tasks) = Len(tasks) + 1
             /\ IsPrefix(tasks, s.tasks)
             /\ s.tasks[Len(s.tasks)].description = d
             /\ ~s.tasks[Len(s.tasks)].completed
             /\ s.nextId = nextId + 1
             /\ Messages(s.logs) = Append(Messages(logs), <<"Task added: ">> \o d)
    /\ newTaskInput \in {<<>>, <<" ">>} => ~ENABLED (HandleAddTask /\ vars' # vars)
    /\ (Room /\ newTaskInput \notin {<<>>, <<" ">>}) =>
          ENABLED (/\ HandleAddTask
                   /\ Len(tasks') = Len(tasks) + 1
                   /\ tasks'[Len(tasks')].description = newTaskInput
                   /\ nextId' = nextId + 1
                   /\ LastMessage(logs') = <<"Task added: ">> \o newTaskInput)

(* The form added a task with its text untrimmed, and a whitespace-only    *)
(* text is now in the field.                                               *)
C15_Witness ==
    /\ \E i \in 1 .. Len(tasks) : tasks[i].description = <<" ", "a">>
    /\ newTaskInput = <<" ">>
    /\ Room

(* C16: the ids of the entries of logs are pairwise distinct. *)
C16_UniqueLogIds ==
    \A i \in 1 .. Len(logs), j \in 1 .. Len(logs) : i # j => logs[i].id # logs[j].id

(* C17: nextId is the number of tasks plus one. *)
C17_NextIdIsCountPlusOne ==
    nextId = Len(tasks) + 1

(* The startup callback, run from the mount render's closure, added two    *)
(* tasks with the same id, and one completeTask marked them.               *)
C17_Witness ==
    /\ Len(tasks) = 2
    /\ tasks[1].id = tasks[2].id
    /\ tasks[1].completed
    /\ nextId = 3

====
